---- MODULE Spec2Model ----
(***************************************************************************)
(* Model of git-switch (Git Profile Manager): the profile store, the SSH   *)
(* identity lifecycle, the global Git identity and the remote URL rewriter *)
(* of src/git_profile_manager.py and src/git_profiles.py.                  *)
(*                                                                         *)
(* Strings are TLA+ strings used character by character (Len, SubSeq, \o), *)
(* so that strip, startswith, split, replace, the `in` test and the two    *)
(* regular expressions are computed the way Python computes them.  The SSH *)
(* config is kept as the sequence of its lines.  The platform is a POSIX   *)
(* one (the Windows branches only rewrite backslashes in paths).           *)
(***************************************************************************)
EXTENDS Integers, Sequences, FiniteSets, TLC

VARIABLES
  store,      \* CONFIG_FILE (~/.git_profiles.json)
  keyFiles,   \* the files that exist in SSH_DIR, by path
  ssh,        \* SSH_DIR / 'config': whether it exists, and its lines
  git,        \* the global Git user.name and user.email
  originUrl,  \* the URL of the remote `origin` of the working directory
  pc,         \* the prompt the CLI is waiting at
  username,   \* the local `username` of add_profile
  ops,        \* menu actions started so far
  faults,     \* failures of the environment so far
  last        \* what the last operation was given and what it reported

vars == <<store, keyFiles, ssh, git, originUrl, pc, username, ops, faults, last>>

(***************************************************************************)
(* Bounds of the model.                                                    *)
(***************************************************************************)
\* menu actions one run of the model starts
MaxOps == 4

\* failures of the environment (a tool that exits nonzero, a file operation
\* that raises) one run of the model has
MaxFaults == 1

(***************************************************************************)
(* Python string primitives.                                               *)
(***************************************************************************)
Char(s, i) == SubSeq(s, i, i)

Drop(s, k) == SubSeq(s, k + 1, Len(s))

\* str.startswith
StartsWith(s, p) == Len(p) <= Len(s) /\ SubSeq(s, 1, Len(p)) = p

\* the `in` operator on strings
Contains(s, sub) ==
  \E i \in 1..(Len(s) - Len(sub) + 1) : SubSeq(s, i, i + Len(sub) - 1) = sub

\* the first position from i on at which sub occurs in s; 0 when there is none
RECURSIVE FindFrom(_, _, _)
FindFrom(s, sub, i) ==
  IF i + Len(sub) - 1 > Len(s) THEN 0
  ELSE IF SubSeq(s, i, i + Len(sub) - 1) = sub THEN i
  ELSE FindFrom(s, sub, i + 1)

\* str.find, 1-based; 0 when sub does not occur
Find(s, sub) == FindFrom(s, sub, 1)

\* the part of s before position at, all of s when at is 0
Before(s, at) == IF at = 0 THEN s ELSE SubSeq(s, 1, at - 1)

\* str.split(sep)[0]
SplitHead(s, sep) == Before(s, Find(s, sep))

\* str.split(sep) has a second element
HasSecond(s, sep) == Contains(s, sep)

\* str.split(sep)[1], defined when HasSecond(s, sep)
SplitSecond(s, sep) == SplitHead(Drop(s, Find(s, sep) + Len(sep) - 1), sep)

\* str.replace(old, new) for a non-empty old: every non-overlapping
\* occurrence, left to right
RECURSIVE Replace(_, _, _)
RECURSIVE ReplaceAt(_, _, _, _)
ReplaceAt(s, old, new, at) ==
  IF at = 0 THEN s
  ELSE SubSeq(s, 1, at - 1) \o new \o Replace(Drop(s, at + Len(old) - 1), old, new)

Replace(s, old, new) == ReplaceAt(s, old, new, Find(s, old))

Whitespace == {" ", "\n", "\t", "\r"}

\* str.strip()
RECURSIVE Strip(_)
Strip(s) ==
  IF s = "" THEN s
  ELSE IF Char(s, 1) \in Whitespace THEN Strip(Drop(s, 1))
  ELSE IF Char(s, Len(s)) \in Whitespace THEN Strip(SubSeq(s, 1, Len(s) - 1))
  ELSE s

\* str.lower() of one character
LowerChar(c) ==
  CASE c = "A" -> "a" [] c = "B" -> "b" [] c = "C" -> "c" [] c = "D" -> "d"
    [] c = "E" -> "e" [] c = "F" -> "f" [] c = "G" -> "g" [] c = "H" -> "h"
    [] c = "I" -> "i" [] c = "J" -> "j" [] c = "K" -> "k" [] c = "L" -> "l"
    [] c = "M" -> "m" [] c = "N" -> "n" [] c = "O" -> "o" [] c = "P" -> "p"
    [] c = "Q" -> "q" [] c = "R" -> "r" [] c = "S" -> "s" [] c = "T" -> "t"
    [] c = "U" -> "u" [] c = "V" -> "v" [] c = "W" -> "w" [] c = "X" -> "x"
    [] c = "Y" -> "y" [] c = "Z" -> "z"
    [] OTHER -> c

\* str.lower(), over ASCII text
RECURSIVE ToLower(_)
ToLower(s) == IF s = "" THEN s ELSE LowerChar(Char(s, 1)) \o ToLower(Drop(s, 1))

(***************************************************************************)
(* Validation patterns.                                                    *)
(***************************************************************************)
Lower == {"a","b","c","d","e","f","g","h","i","j","k","l","m",
          "n","o","p","q","r","s","t","u","v","w","x","y","z"}
Upper == {"A","B","C","D","E","F","G","H","I","J","K","L","M",
          "N","O","P","Q","R","S","T","U","V","W","X","Y","Z"}
Digit == {"0","1","2","3","4","5","6","7","8","9"}
Alpha == Lower \cup Upper
AlNum == Alpha \cup Digit

UsernameChars == AlNum \cup {"-"}
LocalChars == AlNum \cup {".", "_", "%", "+", "-"}
DomainChars == AlNum \cup {".", "-"}

AllIn(s, class) == \A i \in 1..Len(s) : Char(s, i) \in class

\* the text a pattern ending in `$` may match up to: the whole string, or
\* the string without its final newline
DollarEnds(s) ==
  {Len(s)} \cup (IF s # "" /\ Char(s, Len(s)) = "\n" THEN {Len(s) - 1} ELSE {})

\* USERNAME_PATTERN.match: ^[a-zA-Z0-9]([a-zA-Z0-9-]*[a-zA-Z0-9])?$
USERNAME_PATTERN(s) ==
  \E e \in DollarEnds(s) :
    /\ e >= 1
    /\ Char(s, 1) \in AlNum
    /\ Char(s, e) \in AlNum
    /\ AllIn(SubSeq(s, 1, e), UsernameChars)

\* EMAIL_PATTERN.match: ^[a-zA-Z0-9._%+-]+@[a-zA-Z0-9.-]+\.[a-zA-Z]{2,}$
EMAIL_PATTERN(s) ==
  \E e \in DollarEnds(s) : \E a \in 2..e : \E d \in (a + 2)..(e - 2) :
    /\ Char(s, a) = "@"
    /\ Char(s, d) = "."
    /\ AllIn(SubSeq(s, 1, a - 1), LocalChars)
    /\ AllIn(SubSeq(s, a + 1, d - 1), DomainChars)
    /\ AllIn(SubSeq(s, d + 1, e), Alpha)

MaxUsernameLen == 39

validate_username(s) == s # "" /\ Len(s) <= MaxUsernameLen /\ USERNAME_PATTERN(s)

validate_email(s) == EMAIL_PATTERN(s)

(***************************************************************************)
(* Files and values of the environment.                                    *)
(***************************************************************************)
\* an Optional that is None
None == "<None>"

\* a Git key that is not set
Unset == "<unset>"

\* SSH_DIR = Path.home() / '.ssh', for the home directory /h
SSH_DIR == "/h/.ssh"

\* SSH_DIR / f"id_rsa_{username}"
KeyFile(name) == SSH_DIR \o "/id_rsa_" \o name

PubFile(keyFile) == keyFile \o ".pub"

\* the mapping without entries
NoProfiles == [n \in {} |-> [name |-> "", email |-> "", ssh_key |-> ""]]

\* the states of CONFIG_FILE: no file, a file that is not JSON (a write that
\* failed half way), or the JSON object `data`
AbsentStore == [kind |-> "absent", data |-> NoProfiles]
CorruptStore == [kind |-> "corrupt", data |-> NoProfiles]
JsonStore(profiles) == [kind |-> "json", data |-> profiles]

\* the states of SSH_DIR / 'config': a text file is kept as the sequence of
\* its lines, each with its line ending, which is what f.readlines() returns
\* and what f.writelines() takes
AbsentConfig == [exists |-> FALSE, lines |-> <<>>]
ConfigFile(lines) == [exists |-> TRUE, lines |-> lines]

(***************************************************************************)
(* Inputs: what the user types and how the external tools and the file     *)
(* system answer.                                                          *)
(***************************************************************************)
\* lines typed at the username prompts
UsernameInputs == {"al", " al2 ", "-al", ""}

\* lines typed at the email prompt
EmailInputs == {"a@b.co", "c@d.io", "a@b"}

\* answers to the two confirmation prompts of a removal
Confirm1Inputs == {"DELETE", "delete"}
Confirm2Inputs == {" YES ", "no"}

\* ssh-keygen: writes both key files; exits nonzero or cannot be started;
\* writes the files and the chmod that follows raises OSError
KeygenOutcomes == {"ok", "fail", "chmod_error"}

\* open()/write of a file: done, refused at open, failed half way
WriteOutcomes == {"ok", "open_error", "write_error"}

\* the two `git config --global` writes (or unsets) of one call: both done,
\* the first fails, the first is done and the second fails
GitOutcomes == {"ok", "first_fails", "second_fails"}

(***************************************************************************)
(* Profile store.                                                          *)
(***************************************************************************)
\* load_profiles; readable is FALSE when open() or read raises IOError
load_profiles(file, readable) ==
  IF file.kind = "absent" THEN NoProfiles
  ELSE IF file.kind = "json" /\ readable THEN file.data
  ELSE NoProfiles

\* save_profiles: the file after the call
save_profiles(file, profiles, outcome) ==
  CASE outcome = "ok" -> JsonStore(profiles)
    [] outcome = "open_error" -> file
    [] outcome = "write_error" -> CorruptStore

\* profiles[username] = {...}
Assign(profiles, key, entry) ==
  [n \in DOMAIN profiles \cup {key} |-> IF n = key THEN entry ELSE profiles[n]]

\* a removal that leaves the entry in the mapping
DeleteNothing(profiles, key) == profiles

\* del profiles[username]
Delete(profiles, key) == [n \in DOMAIN profiles \ {key} |-> profiles[n]]

\* the entry with name and email in each other's place
NewEntrySwapped(name, email, key_file) ==
  [name |-> email, email |-> name, ssh_key |-> key_file]

\* the entry _create_profile stores
NewEntry(name, email, key_file) ==
  [name |-> name, email |-> email, ssh_key |-> key_file]

(***************************************************************************)
(* Global Git identity.                                                    *)
(***************************************************************************)
\* get_current_git_config: None unless both values are non-empty
get_current_git_config(g) ==
  IF g.name \notin {Unset, ""} /\ g.email \notin {Unset, ""}
  THEN [found |-> TRUE, name |-> g.name, email |-> g.email]
  ELSE [found |-> FALSE, name |-> None, email |-> None]

set_git_config_name_only(g, name, email, outcome) ==
  CASE outcome = "ok" -> [g EXCEPT !.name = name]
    [] outcome = "first_fails" -> g
    [] outcome = "second_fails" -> [g EXCEPT !.name = name]

\* set_git_config: the configuration after the call
set_git_config(g, name, email, outcome) ==
  CASE outcome = "ok" -> [name |-> name, email |-> email]
    [] outcome = "first_fails" -> g
    [] outcome = "second_fails" -> [g EXCEPT !.name = name]

\* _clear_git_global_config: the configuration after the call; unsetting a
\* key that is not set exits nonzero
_clear_git_global_config(g, outcome) ==
  CASE outcome = "ok" -> [name |-> Unset, email |-> Unset]
    [] outcome = "first_fails" -> g
    [] outcome = "second_fails" -> [g EXCEPT !.name = Unset]

\* _find_matching_profile / _find_profile_by_config: the keys whose entry
\* matches the active identity (the code returns the first in file order)
MatchingProfiles(profiles, current) ==
  {n \in DOMAIN profiles :
     profiles[n].name = current.name /\ profiles[n].email = current.email}

(***************************************************************************)
(* SSH client configuration.                                               *)
(***************************************************************************)
\* config_content of update_ssh_config, line by line: the f-string begins
\* with a line break and ends with an empty line
Stanza(name, key_file) ==
  <<"\n",
    "# Git profile: " \o name \o "\n",
    "Host github.com-" \o name \o "\n",
    "    HostName github.com\n",
    "    User git\n",
    "    IdentityFile " \o key_file \o "\n",
    "    IdentitiesOnly yes\n",
    "\n">>

\* the lines of a file opened with 'a' after the lines `written` are written
\* to it: text written after a last line without a line ending goes on in
\* that line
AppendLines(lines, written) ==
  IF lines # <<>> /\ written # <<>> /\ Char(lines[Len(lines)], Len(lines[Len(lines)])) # "\n"
  THEN SubSeq(lines, 1, Len(lines) - 1)
         \o <<lines[Len(lines)] \o Head(written)>> \o Tail(written)
  ELSE lines \o written

\* an update that opens the file with 'w' and so drops what it held
update_ssh_config_overwrite(file, name, key_file, ok) ==
  IF ok THEN ConfigFile(Stanza(name, key_file)) ELSE file

\* update_ssh_config: open(config_file, 'a') and write; the file after it
update_ssh_config(file, name, key_file, ok) ==
  IF ok THEN ConfigFile(AppendLines(file.lines, Stanza(name, key_file))) ELSE file

\* a test that takes the marker of any profile for the marker of this one
LineMatchesAnyProfile(line, name) == Contains(line, "Git profile: ")

\* the test `f"Git profile: {username}" in line`
LineMatches(line, name) == Contains(line, "Git profile: " \o name)

\* a loop that stops filtering at the end of the first stanza it dropped
RECURSIVE FilterLinesFirstOnly(_, _, _)
FilterLinesFirstOnly(lines, name, skip) ==
  IF lines = <<>> THEN <<>>
  ELSE IF Contains(Head(lines), "Git profile: " \o name)
  THEN FilterLinesFirstOnly(Tail(lines), name, TRUE)
  ELSE IF skip /\ Strip(Head(lines)) = "" THEN Tail(lines)
  ELSE IF ~skip THEN <<Head(lines)>> \o FilterLinesFirstOnly(Tail(lines), name, FALSE)
  ELSE FilterLinesFirstOnly(Tail(lines), name, TRUE)

\* the loop of _update_ssh_config_file over the lines, with its skip flag
RECURSIVE FilterLines(_, _, _)
FilterLines(lines, name, skip) ==
  IF lines = <<>> THEN <<>>
  ELSE IF LineMatches(Head(lines), name) THEN FilterLines(Tail(lines), name, TRUE)
  ELSE IF skip /\ Strip(Head(lines)) = "" THEN FilterLines(Tail(lines), name, FALSE)
  ELSE IF ~skip THEN <<Head(lines)>> \o FilterLines(Tail(lines), name, FALSE)
  ELSE FilterLines(Tail(lines), name, TRUE)

\* _update_ssh_config_file: read the lines, filter, write the lines kept
_update_ssh_config_file(lines, name) == FilterLines(lines, name, FALSE)

\* remove_from_ssh_config: the file after the call; ok is FALSE when the
\* read or the open for writing raises IOError
remove_from_ssh_config(file, name, ok) ==
  IF ~file.exists THEN file
  ELSE IF ok THEN ConfigFile(_update_ssh_config_file(file.lines, name))
  ELSE file

(***************************************************************************)
(* SSH key generation and profile creation.                                *)
(***************************************************************************)
_create_ssh_key_unchecked(files, config, key_file, name, keygen, appendOk) ==
  [key_file |-> key_file,
   keyFiles |-> IF keygen = "fail" THEN files ELSE files \cup {key_file, PubFile(key_file)},
   ssh |-> update_ssh_config(config, name, key_file, appendOk),
   effects |-> <<IF keygen = "fail" THEN "keygen_failed" ELSE "keygen",
                 IF appendOk THEN "append" ELSE "append_failed">>]

\* _create_ssh_key: ssh-keygen, chmod of both files, update_ssh_config
_create_ssh_key(files, config, key_file, name, keygen, appendOk) ==
  CASE keygen = "fail" ->
         [key_file |-> None, keyFiles |-> files, ssh |-> config,
          effects |-> <<"keygen_failed">>]
    [] keygen = "chmod_error" ->
         [key_file |-> None, keyFiles |-> files \cup {key_file, PubFile(key_file)},
          ssh |-> config, effects |-> <<"keygen", "chmod_failed">>]
    [] keygen = "ok" ->
         [key_file |-> key_file, keyFiles |-> files \cup {key_file, PubFile(key_file)},
          ssh |-> update_ssh_config(config, name, key_file, appendOk),
          effects |-> <<"keygen", IF appendOk THEN "append" ELSE "append_failed">>]

generate_ssh_key_anew(files, config, name, keygen, appendOk) ==
  _create_ssh_key(files, config, KeyFile(name), name, keygen, appendOk)

\* generate_ssh_key
generate_ssh_key(files, config, name, keygen, appendOk) ==
  IF KeyFile(name) \in files
  THEN [key_file |-> KeyFile(name), keyFiles |-> files, ssh |-> config,
        effects |-> <<"key_exists">>]
  ELSE _create_ssh_key(files, config, KeyFile(name), name, keygen, appendOk)

\* the effects of set_git_config, in order
SetGitEffects(gitSet) ==
  CASE gitSet = "ok" -> <<"set_name", "set_email">>
    [] gitSet = "first_fails" -> <<"set_name_failed">>
    [] gitSet = "second_fails" -> <<"set_name", "set_email_failed">>

AfterKeyGenerationGitFirst(gen, name, email, readable, save, gitSet) ==
  LET profiles == Assign(load_profiles(store, readable), name,
                         NewEntry(name, email, gen.key_file))
  IN  IF gen.key_file = None
      THEN [store |-> store, keyFiles |-> gen.keyFiles, ssh |-> gen.ssh, git |-> git,
            outcome |-> "keygen_failed", effects |-> gen.effects]
      ELSE [store |-> save_profiles(store, profiles, save), keyFiles |-> gen.keyFiles,
            ssh |-> gen.ssh, git |-> set_git_config(git, name, email, gitSet),
            outcome |-> IF save # "ok" THEN "save_failed"
                        ELSE IF gitSet = "ok" THEN "created" ELSE "git_failed",
            effects |-> gen.effects \o SetGitEffects(gitSet)
                          \o <<IF save = "ok" THEN "save" ELSE "save_failed">>]

\* _create_profile after generate_ssh_key has returned gen: the files and the
\* Git identity after the call, and what it returned
AfterKeyGeneration(gen, name, email, readable, save, gitSet) ==
  LET profiles == Assign(load_profiles(store, readable), name,
                         NewEntry(name, email, gen.key_file))
  IN  IF gen.key_file = None
      THEN [store |-> store, keyFiles |-> gen.keyFiles, ssh |-> gen.ssh, git |-> git,
            outcome |-> "keygen_failed", effects |-> gen.effects]
      ELSE IF save # "ok"
      THEN [store |-> save_profiles(store, profiles, save), keyFiles |-> gen.keyFiles,
            ssh |-> gen.ssh, git |-> git,
            outcome |-> "save_failed", effects |-> gen.effects \o <<"save_failed">>]
      ELSE [store |-> save_profiles(store, profiles, save), keyFiles |-> gen.keyFiles,
            ssh |-> gen.ssh, git |-> set_git_config(git, name, email, gitSet),
            outcome |-> IF gitSet = "ok" THEN "created" ELSE "git_failed",
            effects |-> gen.effects \o <<"save">> \o SetGitEffects(gitSet)]

\* _create_profile
_create_profile(name, email, keygen, appendOk, readable, save, gitSet) ==
  AfterKeyGeneration(generate_ssh_key(keyFiles, ssh, name, keygen, appendOk),
                     name, email, readable, save, gitSet)

(***************************************************************************)
(* Remote URL rewriter.                                                    *)
(***************************************************************************)
\* the working directory has no remote `origin` (or is not a repository)
NoOrigin == "<no origin>"

\* _convert_ssh_url; raises IndexError when split('github.com:') has one part
_convert_ssh_url(current_url, name) ==
  IF Contains(current_url, "github.com-")
  THEN LET old_profile == SplitHead(SplitSecond(current_url, "github.com-"), ":")
       IN  [raised |-> FALSE,
            url |-> Replace(current_url, "github.com-" \o old_profile \o ":",
                            "github.com-" \o name \o ":")]
  ELSE IF HasSecond(current_url, "github.com:")
  THEN [raised |-> FALSE,
        url |-> "git@github.com-" \o name \o ":" \o SplitSecond(current_url, "github.com:")]
  ELSE [raised |-> TRUE, url |-> None]

\* _convert_https_url
_convert_https_url(current_url, name) ==
  [raised |-> FALSE,
   url |-> "git@github.com-" \o name \o ":" \o Replace(current_url, "https://github.com/", "")]

\* _convert_url_for_profile
_convert_url_for_profile(current_url, name) ==
  IF StartsWith(current_url, "git@github.com") THEN _convert_ssh_url(current_url, name)
  ELSE IF StartsWith(current_url, "https://github.com/")
  THEN _convert_https_url(current_url, name)
  ELSE [raised |-> FALSE, url |-> None]

\* update_repository_url_for_profile once the URL is converted: the origin
\* URL after the call, the URL computed, and whether the call raised; setOk
\* is the exit of `git remote set-url` in _update_remote_url
_update_remote_url(current_url, conv, setOk) ==
  IF conv.raised
  THEN [origin |-> current_url, new_url |-> None, raised |-> TRUE, effects |-> <<>>]
  ELSE IF conv.url \in {None, ""}
  THEN [origin |-> current_url, new_url |-> None, raised |-> FALSE,
        effects |-> <<"url_warning">>]
  ELSE [origin |-> IF setOk THEN conv.url ELSE current_url,
        new_url |-> conv.url, raised |-> FALSE,
        effects |-> <<IF setOk THEN "set_url" ELSE "set_url_failed">>]

\* update_repository_url_for_profile
update_repository_url_for_profile(current_url, name, setOk) ==
  IF current_url \in {NoOrigin, ""}
  THEN [origin |-> current_url, new_url |-> None, raised |-> FALSE, effects |-> <<>>]
  ELSE _update_remote_url(current_url, _convert_url_for_profile(current_url, name), setOk)

(***************************************************************************)
(* Profile removal.                                                        *)
(***************************************************************************)
_confirm_permanent_removal_first_only(confirm1, confirm2) ==
  Strip(confirm1) = "DELETE"

\* _confirm_permanent_removal
_confirm_permanent_removal(confirm1, confirm2) ==
  Strip(confirm1) = "DELETE" /\ ToLower(Strip(confirm2)) = "yes"

IsActiveByName(g, profile) ==
  /\ get_current_git_config(g).found
  /\ get_current_git_config(g).name = profile.name

\* the test of _cleanup_current_profile_with_feedback
IsActive(g, profile) ==
  /\ get_current_git_config(g).found
  /\ get_current_git_config(g).name = profile.name
  /\ get_current_git_config(g).email = profile.email

\* _cleanup_current_profile_with_feedback: the Git identity after the call
_cleanup_current_profile_with_feedback(g, profile, gitUnset) ==
  IF IsActive(g, profile)
  THEN [git |-> _clear_git_global_config(g, gitUnset),
        effects |-> CASE gitUnset = "ok" -> <<"unset_name", "unset_email">>
                      [] gitUnset = "first_fails" -> <<"unset_name_failed">>
                      [] gitUnset = "second_fails" -> <<"unset_name", "unset_email_failed">>]
  ELSE [git |-> g, effects |-> <<"skip_git">>]

\* the unlink of one key file in _cleanup_ssh_files_with_feedback
Unlink(files, path, ok) == IF path \in files /\ ok THEN files \ {path} ELSE files

UnlinkEffect(files, path, ok, what) ==
  IF path \notin files THEN what \o "_missing"
  ELSE IF ok THEN "unlink_" \o what ELSE "unlink_" \o what \o "_failed"

\* _cleanup_ssh_files_with_feedback: the key files and the SSH config after it
_cleanup_ssh_files_with_feedback(files, config, name, profile, unlinkKey, unlinkPub, rewriteOk) ==
  [keyFiles |-> Unlink(Unlink(files, profile.ssh_key, unlinkKey),
                       PubFile(profile.ssh_key), unlinkPub),
   ssh |-> remove_from_ssh_config(config, name, rewriteOk),
   effects |-> <<UnlinkEffect(files, profile.ssh_key, unlinkKey, "key"),
                 UnlinkEffect(files, PubFile(profile.ssh_key), unlinkPub, "pub"),
                 IF ~config.exists THEN "no_ssh_config"
                 ELSE IF rewriteOk THEN "rewrite_ssh_config"
                 ELSE "rewrite_ssh_config_failed">>]

\* the three steps of _perform_complete_profile_removal put together
RemovalSteps(step1, step2, saved, save) ==
  [store |-> saved, keyFiles |-> step2.keyFiles, ssh |-> step2.ssh, git |-> step1.git,
   outcome |-> IF save = "ok" THEN "removed" ELSE "save_failed",
   effects |-> step1.effects \o step2.effects
                 \o <<IF save = "ok" THEN "save" ELSE "save_failed">>]

_perform_complete_profile_removal_abort(name, profile, profiles, gitUnset, unlinkKey, unlinkPub, rewriteOk, save) ==
  IF IsActive(git, profile) /\ gitUnset # "ok"
  THEN [store |-> store, keyFiles |-> keyFiles, ssh |-> ssh,
        git |-> _clear_git_global_config(git, gitUnset),
        outcome |-> "save_failed",
        effects |-> _cleanup_current_profile_with_feedback(git, profile, gitUnset).effects]
  ELSE RemovalSteps(_cleanup_current_profile_with_feedback(git, profile, gitUnset),
                    _cleanup_ssh_files_with_feedback(keyFiles, ssh, name, profile,
                                                     unlinkKey, unlinkPub, rewriteOk),
                    save_profiles(store, Delete(profiles, name), save),
                    save)

\* _perform_complete_profile_removal
_perform_complete_profile_removal(name, profile, profiles, gitUnset, unlinkKey, unlinkPub, rewriteOk, save) ==
  RemovalSteps(_cleanup_current_profile_with_feedback(git, profile, gitUnset),
               _cleanup_ssh_files_with_feedback(keyFiles, ssh, name, profile,
                                                unlinkKey, unlinkPub, rewriteOk),
               save_profiles(store, Delete(profiles, name), save),
               save)

\* a return of remove_profile before anything is removed
Untouched(outcome) ==
  [store |-> store, keyFiles |-> keyFiles, ssh |-> ssh, git |-> git,
   outcome |-> outcome, effects |-> <<>>]

\* remove_profile, from the menu to its return; name is the line typed at
\* the prompt, stripped
remove_profile(name, confirm1, confirm2, readable, gitUnset, unlinkKey, unlinkPub, rewriteOk, save) ==
  LET profiles == load_profiles(store, readable)
  IN  IF DOMAIN profiles = {} THEN Untouched("no_profiles")
      ELSE IF name \notin DOMAIN profiles THEN Untouched("not_found")
      ELSE IF ~_confirm_permanent_removal(confirm1, confirm2) THEN Untouched("cancelled")
      ELSE _perform_complete_profile_removal(name, profiles[name], profiles,
             gitUnset, unlinkKey, unlinkPub, rewriteOk, save)

(***************************************************************************)
(* The state machine: one action per menu entry and per prompt of          *)
(* add_profile.                                                            *)
(***************************************************************************)
\* origin URLs of the working directory the tool is started in
UrlInputs ==
  {"https://github.com/u/r.git",
   "git@github.com:u/r.git",
   "git@github.com-old:u/r.git",
   "git@github.com-old:u/github.com-r.git",
   "git@github.com:u/github.com-x.git",
   "git@github.com-old:u/github.com-old:r",
   "https://github.com/u/https://github.com/r",
   "ftp://host/u/r.git",
   "git@github.company.org:u/r.git",
   NoOrigin}

\* the files and the Git identity as an operation finds them
Found == [store |-> store, keyFiles |-> keyFiles, ssh |-> ssh, git |-> git]

\* the record of the last operation: its name, the name and email it worked
\* on, what it reported, the effects it attempted in order, whether it
\* repeats a completed removal of the same name, the origin URL it read, the
\* URL it computed, and the files and Git identity it started from
Last(op, name, email, outcome, effects, repeat, url, new_url) ==
  [op |-> op, name |-> name, email |-> email, outcome |-> outcome,
   effects |-> effects, repeat |-> repeat, url |-> url, new_url |-> new_url,
   before |-> Found]

\* the failures among the answers of the environment
Bad(ok) == IF ok THEN 0 ELSE 1
BadOutcome(outcome) == IF outcome = "ok" THEN 0 ELSE 1

\* a first start of the tool, on a machine without profiles and in a directory
\* that is no repository
Init ==
  /\ store = AbsentStore
  /\ keyFiles = {}
  /\ ssh = AbsentConfig
  /\ git = [name |-> Unset, email |-> Unset]
  /\ originUrl = NoOrigin
  /\ pc = "menu"
  /\ username = ""
  /\ ops = 0
  /\ faults = 0
  /\ last = Last("start", "", "", "", <<>>, FALSE, None, None)

\* menu choice 1: add_profile up to its first prompt
ChooseAdd ==
  /\ pc = "menu"
  /\ ops < MaxOps
  /\ pc' = "add_username"
  /\ ops' = ops + 1
  /\ last' = Last("choose_add", "", "", "", <<>>, FALSE, None, None)
  /\ UNCHANGED <<store, keyFiles, ssh, git, originUrl, username, faults>>

\* _get_valid_username: one pass of its loop, for the stripped line `name`
_get_valid_username(name, readable) ==
  IF name = "" THEN "empty"
  ELSE IF ~validate_username(name) THEN "invalid"
  ELSE IF name \in DOMAIN load_profiles(store, readable) THEN "exists"
  ELSE "accepted"

\* the username prompt of add_profile
EnterUsername(typed, readable) ==
  /\ pc = "add_username"
  /\ faults + Bad(readable) <= MaxFaults
  /\ faults' = faults + Bad(readable)
  /\ \E name \in {Strip(typed)} :
     \E outcome \in {_get_valid_username(name, readable)} :
       /\ pc' = IF outcome = "accepted" THEN "add_email" ELSE pc
       /\ username' = IF outcome = "accepted" THEN name ELSE username
       /\ last' = Last("enter_username", name, "", outcome, <<>>, FALSE, None, None)
  /\ UNCHANGED <<store, keyFiles, ssh, git, originUrl, ops>>

_get_valid_email_unvalidated(email) == IF email = "" THEN "empty" ELSE "accepted"

\* _get_valid_email: one pass of its loop, for the stripped line `email`
_get_valid_email(email) ==
  IF email = "" THEN "empty"
  ELSE IF ~validate_email(email) THEN "invalid"
  ELSE "accepted"

\* the email prompt of add_profile with an email that is rejected
RejectEmail(typed) ==
  /\ pc = "add_email"
  /\ \E email \in {Strip(typed)} :
     \E outcome \in {_get_valid_email(email)} :
       /\ outcome # "accepted"
       /\ last' = Last("enter_email", username, email, outcome, <<>>, FALSE, None, None)
  /\ UNCHANGED <<store, keyFiles, ssh, git, originUrl, pc, username, ops, faults>>

\* the email prompt of add_profile with an accepted email: _create_profile
\* and, after a creation, _handle_ssh_setup, whose lookup of the new entry
\* raises KeyError when the store cannot be read back
EnterEmail(typed, keygen, appendOk, readable, save, gitSet, readBack) ==
  /\ pc = "add_email"
  /\ \E n \in {BadOutcome(keygen) + Bad(appendOk) + Bad(readable) + BadOutcome(save)
                 + BadOutcome(gitSet) + Bad(readBack)} :
       /\ faults + n <= MaxFaults
       /\ faults' = faults + n
  /\ \E email \in {Strip(typed)} :
     \E r \in {_create_profile(username, email, keygen, appendOk, readable, save, gitSet)} :
       /\ _get_valid_email(email) = "accepted"
       /\ store' = r.store
       /\ keyFiles' = r.keyFiles
       /\ ssh' = r.ssh
       /\ git' = r.git
       /\ pc' = IF r.outcome = "created" /\ ~readBack THEN "exited" ELSE "menu"
       /\ last' = Last("enter_email", username, email, r.outcome,
                       r.effects \o (IF r.outcome = "created" /\ ~readBack
                                     THEN <<"raised">> ELSE <<>>),
                       FALSE, None, None)
  /\ username' = ""
  /\ UNCHANGED <<originUrl, ops>>

\* menu choice 3: remove_profile
RemoveProfile(typed, confirm1, confirm2, readable, gitUnset, unlinkKey, unlinkPub, rewriteOk, save) ==
  /\ pc = "menu"
  /\ ops < MaxOps
  /\ \E n \in {Bad(readable) + BadOutcome(gitUnset) + Bad(unlinkKey) + Bad(unlinkPub)
                 + Bad(rewriteOk) + BadOutcome(save)} :
       /\ faults + n <= MaxFaults
       /\ faults' = faults + n
  /\ \E name \in {Strip(typed)} :
     \E r \in {remove_profile(name, confirm1, confirm2, readable,
                              gitUnset, unlinkKey, unlinkPub, rewriteOk, save)} :
       /\ store' = r.store
       /\ keyFiles' = r.keyFiles
       /\ ssh' = r.ssh
       /\ git' = r.git
       /\ last' = Last("remove", name, "", r.outcome, r.effects,
                       /\ last.op = "remove"
                       /\ last.outcome = "removed"
                       /\ last.name = name,
                       None, None)
  /\ ops' = ops + 1
  /\ UNCHANGED <<originUrl, pc, username>>

\* switch_profile for a name that load_profiles has, with the outcome u of
\* update_repository_url_for_profile when set_git_config succeeds
_perform_profile_switch(name, profile, gitSet, u) ==
  IF gitSet # "ok"
  THEN /\ git' = set_git_config(git, profile.name, profile.email, gitSet)
       /\ last' = Last("switch", name, profile.email, "git_failed",
                       SetGitEffects(gitSet), FALSE, None, None)
       /\ UNCHANGED <<originUrl, pc>>
  ELSE /\ git' = set_git_config(git, profile.name, profile.email, gitSet)
       /\ originUrl' = u.origin
       /\ pc' = IF u.raised THEN "exited" ELSE pc
       /\ last' = Last("switch", name, profile.email, "switched",
                       SetGitEffects(gitSet) \o u.effects
                         \o (IF u.raised THEN <<"raised">> ELSE <<>>),
                       FALSE, originUrl, u.new_url)

\* menu choice 2: switch_profile
SwitchProfile(typed, readable, gitSet, setOk) ==
  /\ pc = "menu"
  /\ ops < MaxOps
  /\ \E n \in {Bad(readable) + BadOutcome(gitSet) + Bad(setOk)} :
       /\ faults + n <= MaxFaults
       /\ faults' = faults + n
  /\ \E name \in {Strip(typed)}, profiles \in {load_profiles(store, readable)} :
       IF DOMAIN profiles = {} \/ name \notin DOMAIN profiles
       THEN /\ last' = Last("switch", name, "",
                            IF DOMAIN profiles = {} THEN "no_profiles" ELSE "not_found",
                            <<>>, FALSE, None, None)
            /\ UNCHANGED <<git, originUrl, pc>>
       ELSE \E u \in {update_repository_url_for_profile(originUrl, name, setOk)} :
              _perform_profile_switch(name, profiles[name], gitSet, u)
  /\ ops' = ops + 1
  /\ UNCHANGED <<store, keyFiles, ssh, username>>

\* settings choice 2: update_repository_url
UpdateRepositoryUrl(readable, setOk) ==
  /\ pc = "menu"
  /\ ops < MaxOps
  /\ \E n \in {Bad(readable) + Bad(setOk)} :
       /\ faults + n <= MaxFaults
       /\ faults' = faults + n
  /\ \E current \in {get_current_git_config(git)},
        profiles \in {load_profiles(store, readable)} :
       IF originUrl = NoOrigin \/ ~current.found \/ MatchingProfiles(profiles, current) = {}
       THEN /\ last' = Last("update_url", "", "",
                            IF originUrl = NoOrigin THEN "not_in_repo"
                            ELSE IF ~current.found THEN "no_git_config"
                            ELSE "no_match",
                            <<>>, FALSE, None, None)
            /\ UNCHANGED <<originUrl, pc>>
       ELSE \E name \in MatchingProfiles(profiles, current) :
            \E u \in {update_repository_url_for_profile(originUrl, name, setOk)} :
              /\ originUrl' = u.origin
              /\ pc' = IF u.raised THEN "exited" ELSE pc
              /\ last' = Last("update_url", name, current.email, "updated",
                              u.effects \o (IF u.raised THEN <<"raised">> ELSE <<>>),
                              FALSE, originUrl, u.new_url)
  /\ ops' = ops + 1
  /\ UNCHANGED <<store, keyFiles, ssh, git, username>>

(***************************************************************************)
(* The answers of the environment an operation consumes: an answer that the *)
(* code never asks for is fixed, so that each run is counted once.          *)
(***************************************************************************)
Only(cond, choices, fixed) == IF cond THEN choices ELSE {fixed}

\* the store file can be opened and holds JSON, so that a failing read differs
\* from a read
Reads == Only(store.kind = "json", BOOLEAN, TRUE)

\* update_repository_url_for_profile gets as far as `git remote set-url`
SetsUrl(name) ==
  /\ originUrl \notin {NoOrigin, ""}
  /\ ~_convert_url_for_profile(originUrl, name).raised
  /\ _convert_url_for_profile(originUrl, name).url # None

Next ==
  \/ ChooseAdd
  \/ \E typed \in UsernameInputs :
       \E readable \in Only(pc = "add_username" /\ validate_username(Strip(typed)), Reads, TRUE) :
         EnterUsername(typed, readable)
  \/ \E typed \in EmailInputs : RejectEmail(typed)
  \/ \E typed \in EmailInputs :
       \E keygen \in Only(KeyFile(username) \notin keyFiles, KeygenOutcomes, "ok") :
       \E appendOk \in Only(KeyFile(username) \notin keyFiles /\ keygen = "ok", BOOLEAN, TRUE) :
       \E readable \in Only(keygen = "ok", Reads, TRUE) :
       \E save \in Only(keygen = "ok", WriteOutcomes, "ok") :
       \E gitSet \in Only(keygen = "ok" /\ save = "ok", GitOutcomes, "ok") :
       \E readBack \in Only(keygen = "ok" /\ save = "ok" /\ gitSet = "ok", BOOLEAN, TRUE) :
         EnterEmail(typed, keygen, appendOk, readable, save, gitSet, readBack)
  \/ \E typed \in UsernameInputs, readable \in Reads :
       \E found \in {pc = "menu" /\ Strip(typed) \in DOMAIN load_profiles(store, readable)} :
       \E confirm1 \in Only(found, Confirm1Inputs, "DELETE") :
       \E confirm2 \in Only(found /\ Strip(confirm1) = "DELETE", Confirm2Inputs, "yes") :
       \E runs \in {found /\ _confirm_permanent_removal(confirm1, confirm2)} :
       \E profile \in {IF runs THEN store.data[Strip(typed)] ELSE NewEntry("", "", "")} :
       \E gitUnset \in Only(runs /\ IsActive(git, profile), GitOutcomes, "ok") :
       \E unlinkKey \in Only(runs /\ profile.ssh_key \in keyFiles, BOOLEAN, TRUE) :
       \E unlinkPub \in Only(runs /\ PubFile(profile.ssh_key) \in keyFiles, BOOLEAN, TRUE) :
       \E rewriteOk \in Only(runs /\ ssh.exists, BOOLEAN, TRUE) :
       \E save \in Only(runs, WriteOutcomes, "ok") :
         RemoveProfile(typed, confirm1, confirm2, readable,
                       gitUnset, unlinkKey, unlinkPub, rewriteOk, save)
  \/ \E typed \in UsernameInputs, readable \in Reads :
       \E found \in {pc = "menu" /\ Strip(typed) \in DOMAIN load_profiles(store, readable)} :
       \E gitSet \in Only(found, GitOutcomes, "ok") :
       \E setOk \in Only(found /\ gitSet = "ok" /\ SetsUrl(Strip(typed)), BOOLEAN, TRUE) :
         SwitchProfile(typed, readable, gitSet, setOk)
  \/ \E readable \in Reads :
       \E matching \in {MatchingProfiles(load_profiles(store, readable),
                                         get_current_git_config(git))} :
       \E setOk \in Only(\E name \in matching : SetsUrl(name), BOOLEAN, TRUE) :
         UpdateRepositoryUrl(readable, setOk)

Spec == Init /\ [][Next]_vars

(***************************************************************************)
(* The rewriter on its own: both profiles exist, the second one created is *)
(* active, and the tool is started in a repository with any of the origin  *)
(* URLs.                                                                   *)
(***************************************************************************)
InitUrl ==
  /\ store = JsonStore(Assign(Assign(NoProfiles, "al", NewEntry("al", "a@b.co", KeyFile("al"))),
                              "al2", NewEntry("al2", "c@d.io", KeyFile("al2"))))
  /\ keyFiles = {KeyFile("al"), PubFile(KeyFile("al")), KeyFile("al2"), PubFile(KeyFile("al2"))}
  /\ ssh = ConfigFile(Stanza("al", KeyFile("al")) \o Stanza("al2", KeyFile("al2")))
  /\ git = [name |-> "al2", email |-> "c@d.io"]
  /\ originUrl \in UrlInputs
  /\ pc = "menu"
  /\ username = ""
  /\ ops = 0
  /\ faults = 0
  /\ last = Last("start", "", "", "", <<>>, FALSE, None, None)

NextUrl ==
  \/ \E typed \in UsernameInputs, readable \in Reads :
       \E found \in {pc = "menu" /\ Strip(typed) \in DOMAIN load_profiles(store, readable)} :
       \E gitSet \in Only(found, GitOutcomes, "ok") :
       \E setOk \in Only(found /\ gitSet = "ok" /\ SetsUrl(Strip(typed)), BOOLEAN, TRUE) :
         SwitchProfile(typed, readable, gitSet, setOk)
  \/ \E readable \in Reads :
       \E matching \in {MatchingProfiles(load_profiles(store, readable),
                                         get_current_git_config(git))} :
       \E setOk \in Only(\E name \in matching : SetsUrl(name), BOOLEAN, TRUE) :
         UpdateRepositoryUrl(readable, setOk)

SpecUrl == InitUrl /\ [][NextUrl]_vars

(***************************************************************************)
(* Vocabulary of the properties.                                           *)
(***************************************************************************)
\* the profile names the username prompts can yield
ProfileNames == {Strip(typed) : typed \in {t \in UsernameInputs : validate_username(Strip(t))}}

Has(seq, x) == \E i \in DOMAIN seq : seq[i] = x

\* the lines of the stanza of a profile, from its marker line to its last
\* option, as section 3 of the specification lists them
StanzaLines(name) ==
  <<"# Git profile: " \o name \o "\n",
    "Host github.com-" \o name \o "\n",
    "    HostName github.com\n",
    "    User git\n",
    "    IdentityFile " \o SSH_DIR \o "/id_rsa_" \o name \o "\n",
    "    IdentitiesOnly yes\n">>

\* where the stanza `stanza` stands, whole, in the lines
StanzasAt(lines, stanza) ==
  {i \in 1..(Len(lines) - Len(stanza) + 1) : SubSeq(lines, i, i + Len(stanza) - 1) = stanza}

\* the number of whole stanzas of a profile in the lines of a file
StanzaCount(lines, name) == Cardinality(StanzasAt(lines, StanzaLines(name)))

\* the lines of a file that are the marker line of a profile
MarkerCount(lines, name) == Cardinality(StanzasAt(lines, <<StanzaLines(name)[1]>>))

\* the last operation was a profile creation that returned True
Created == last.op = "enter_email" /\ last.outcome = "created"

\* the last operation was a confirmed removal that rewrote the SSH config
RemovalRewrote == last.op = "remove" /\ Has(last.effects, "rewrite_ssh_config")

\* the last operation appended a stanza to the SSH config
Appended == last.op = "enter_email" /\ Has(last.effects, "append")

\* the last operation converted the origin URL it read
UrlConverted ==
  /\ last.op \in {"switch", "update_url"}
  /\ last.outcome \in {"switched", "updated"}
  /\ last.url \notin {None, NoOrigin}

(***************************************************************************)
(* C1.  When profile creation succeeds for a valid name N and a valid      *)
(* email E, a load of the store yields for N exactly                       *)
(* {name: N, email: E, ssh_key: <ssh-dir>/id_rsa_<N>}.                      *)
(***************************************************************************)
C1_CreatedEntryIsStored ==
  Created =>
    /\ last.name \in DOMAIN load_profiles(store, TRUE)
    /\ load_profiles(store, TRUE)[last.name] =
         [name |-> last.name, email |-> last.email,
          ssh_key |-> SSH_DIR \o "/id_rsa_" \o last.name]

C1_Witness ==
  /\ Created
  /\ last.name = "al2"
  /\ last.email = "c@d.io"
  /\ "al" \in DOMAIN store.data

(***************************************************************************)
(* C2.  A create attempt whose name is malformed or already a key of the   *)
(* store, or whose email is malformed, is rejected, and at the rejection   *)
(* no key generation was invoked and the key files, the SSH config, the    *)
(* store and the global Git config are as before.                          *)
(***************************************************************************)
C2_InvalidAttemptRejected ==
  /\ (/\ last.op = "enter_username"
      /\ \/ ~validate_username(last.name)
         \/ last.name \in DOMAIN last.before.store.data)
       => (last.outcome # "accepted" /\ last.effects = <<>> /\ Found = last.before)
  /\ (last.op = "enter_email" /\ ~validate_email(last.email))
       => (last.outcome \in {"empty", "invalid"} /\ last.effects = <<>>
           /\ Found = last.before)

(***************************************************************************)
(* C3.  After a confirmed deletion of a stored profile N completes, the    *)
(* store has no entry for N, neither key file of N exists, and the SSH     *)
(* config has no stanza marked `# Git profile: N`.                         *)
(***************************************************************************)
C3_RemovalIsComplete ==
  (last.op = "remove" /\ last.outcome = "removed") =>
    /\ last.name \notin DOMAIN load_profiles(store, TRUE)
    /\ last.before.store.data[last.name].ssh_key \notin keyFiles
    /\ PubFile(last.before.store.data[last.name].ssh_key) \notin keyFiles
    /\ MarkerCount(ssh.lines, last.name) = 0

(***************************************************************************)
(* C4.  Deletion is idempotent: a second removal of N right after a        *)
(* completed removal of N reports that the profile is not found, raises    *)
(* nothing and leaves the store, the key files, the SSH config and the     *)
(* global Git config as the first removal left them.                       *)
(***************************************************************************)
C4_SecondRemovalNotFound ==
  (last.op = "remove" /\ last.repeat) =>
    (last.outcome = "not_found" /\ pc # "exited" /\ Found = last.before)

\* C4 as amended: the second removal reports "not found", or "no profiles to
\* remove" when the mapping it loads is empty, and changes nothing
C4_SecondRemovalChangesNothing ==
  (last.op = "remove" /\ last.repeat) =>
    (last.outcome \in {"not_found", "no_profiles"} /\ pc # "exited"
     /\ Found = last.before)

C4_Witness ==
  /\ last.op = "remove"
  /\ last.repeat
  /\ last.outcome = "not_found"
  /\ DOMAIN store.data # {}

(***************************************************************************)
(* C5.  Removing the stanza of N from the SSH config removes no line of a  *)
(* stanza of another profile M whose name is a substring of N: every whole *)
(* stanza of M is still there.                                             *)
(***************************************************************************)
C5_SubstringProfileKept ==
  RemovalRewrote =>
    \A m \in ProfileNames :
      (m # last.name /\ Contains(last.name, m)) =>
        StanzaCount(ssh.lines, m) = StanzaCount(last.before.ssh.lines, m)

C5_Witness ==
  /\ RemovalRewrote
  /\ last.name = "al2"
  /\ StanzaCount(last.before.ssh.lines, "al2") = 1
  /\ StanzaCount(last.before.ssh.lines, "al") = 1
  /\ StanzaCount(ssh.lines, "al2") = 0

(***************************************************************************)
(* C6.  Removing the stanza of N selects stanzas by the exact marker line  *)
(* only: for every other profile M, also one of which N is a prefix or     *)
(* substring, every whole stanza of M is still there after the removal.    *)
(***************************************************************************)
C6_OtherProfilesKept ==
  RemovalRewrote =>
    \A m \in ProfileNames :
      m # last.name =>
        StanzaCount(ssh.lines, m) = StanzaCount(last.before.ssh.lines, m)

(***************************************************************************)
(* C7.  When the SSH config holds more than one stanza marked              *)
(* `# Git profile: N`, the removal for N drops the first one only and      *)
(* leaves the later ones in the file.                                      *)
(***************************************************************************)
C7_OnlyFirstStanzaDropped ==
  (RemovalRewrote /\ StanzaCount(last.before.ssh.lines, last.name) > 1) =>
    StanzaCount(ssh.lines, last.name) = StanzaCount(last.before.ssh.lines, last.name) - 1

\* C7 as amended: the removal for N drops every stanza marked
\* `# Git profile: N`, so that none is left in the file
C7_EveryStanzaDropped ==
  (RemovalRewrote /\ StanzaCount(last.before.ssh.lines, last.name) > 1) =>
    (StanzaCount(ssh.lines, last.name) = 0 /\ MarkerCount(ssh.lines, last.name) = 0)

C7_Witness ==
  /\ RemovalRewrote
  /\ StanzaCount(last.before.ssh.lines, last.name) = 2
  /\ MarkerCount(last.before.ssh.lines, last.name) = 2

(***************************************************************************)
(* C8.  update_ssh_config is append-only and not idempotent: a successful  *)
(* call leaves the prior content of the SSH config as it was and adds one  *)
(* stanza for the name at the end, so that a second call for the same name *)
(* leaves two stanzas of it.                                               *)
(***************************************************************************)
C8_AppendOnly ==
  Appended =>
    /\ ssh.exists
    /\ ssh.lines = last.before.ssh.lines \o <<"\n">> \o StanzaLines(last.name) \o <<"\n">>
    /\ StanzaCount(ssh.lines, last.name) = StanzaCount(last.before.ssh.lines, last.name) + 1

C8_Witness ==
  /\ Appended
  /\ StanzaCount(last.before.ssh.lines, last.name) = 1
  /\ StanzaCount(ssh.lines, last.name) = 2

(***************************************************************************)
(* C9.  For an origin URL git@github.com-<old>:<path> or                   *)
(* git@github.com:<path> and a profile name N the rewriter computes        *)
(* git@github.com-N:<path> with <path> as it was, whatever the path holds. *)
(***************************************************************************)
AliasPrefix == "git@github.com-"
BarePrefix == "git@github.com:"
HttpsPrefix == "https://github.com/"

\* git@github.com-<old>:<path>
IsAliasForm(url) ==
  StartsWith(url, AliasPrefix) /\ Contains(Drop(url, Len(AliasPrefix)), ":")

AliasPath(url) ==
  Drop(url, Len(AliasPrefix) + Find(Drop(url, Len(AliasPrefix)), ":"))

\* git@github.com:<path>
IsBareForm(url) == StartsWith(url, BarePrefix)

C9_SshUrlRewritten ==
  UrlConverted =>
    /\ IsAliasForm(last.url) =>
         last.new_url = AliasPrefix \o last.name \o ":" \o AliasPath(last.url)
    /\ IsBareForm(last.url) =>
         last.new_url = AliasPrefix \o last.name \o ":" \o Drop(last.url, Len(BarePrefix))

(***************************************************************************)
(* C10.  For an origin URL https://github.com/<path> and a profile name N  *)
(* the rewriter computes git@github.com-N:<path> with <path> as it was.    *)
(***************************************************************************)
C10_HttpsUrlRewritten ==
  (UrlConverted /\ StartsWith(last.url, HttpsPrefix)) =>
    last.new_url = AliasPrefix \o last.name \o ":" \o Drop(last.url, Len(HttpsPrefix))

(***************************************************************************)
(* C11.  For an origin URL that is none of the three supported forms (for  *)
(* example ftp://..., or a URL that only starts with the text              *)
(* git@github.com, such as git@github.company.org:u/r.git) the rewriter    *)
(* yields nothing, emits a warning, does not run `git remote set-url`,     *)
(* leaves the origin URL as it was and raises no error.                    *)
(***************************************************************************)
IsSupportedForm(url) ==
  IsAliasForm(url) \/ IsBareForm(url) \/ StartsWith(url, HttpsPrefix)

C11_UnsupportedUrlIgnored ==
  (UrlConverted /\ ~IsSupportedForm(last.url)) =>
    /\ last.new_url = None
    /\ Has(last.effects, "url_warning")
    /\ ~Has(last.effects, "set_url") /\ ~Has(last.effects, "set_url_failed")
    /\ ~Has(last.effects, "raised")
    /\ originUrl = last.url
    /\ pc # "exited"

(***************************************************************************)
(* The connection test: settings choice 1 with the name of one profile.    *)
(* The probe is `ssh -T git@github.com-<name>`; its answer is whether it   *)
(* could be started, how long it ran, its exit code and what it wrote to   *)
(* stderr.                                                                 *)
(***************************************************************************)
\* timeout=15 of the subprocess run
ProbeTimeout == 15

ProbeSeconds == {1, ProbeTimeout, ProbeTimeout + 1}
ReturnCodes == {0, 1, 255}
StderrInputs ==
  {"You've successfully authenticated.\n",
   "You've Successfully Authenticated.\n",
   "Permission denied (publickey).\n",
   "successfully",
   ""}

\* a probe that was not started or was stopped at the timeout leaves no exit
\* code and no captured stderr
ProbeAnswers ==
  {p \in [started : BOOLEAN, seconds : ProbeSeconds,
          returncode : ReturnCodes, stderr : StderrInputs] :
     /\ ~p.started => p.seconds = 1
     /\ (~p.started \/ p.seconds > ProbeTimeout) => (p.returncode = 0 /\ p.stderr = "")}

\* the answer the code does not look at when the probe is not run
NoProbe == [started |-> TRUE, seconds |-> 1, returncode |-> 0, stderr |-> ""]

_handle_ssh_test_result_by_returncode(result) ==
  IF result.returncode = 0 THEN "success" ELSE "auth_failure"

_handle_ssh_test_result(result) ==
  IF Contains(ToLower(result.stderr), "successfully authenticated")
  THEN "success"
  ELSE "auth_failure"

\* subprocess.run raises OSError when ssh cannot be started and TimeoutExpired
\* when it has not ended after the timeout
_perform_ssh_test(probe) ==
  IF ~probe.started THEN "OSError"
  ELSE IF probe.seconds > ProbeTimeout THEN "TimeoutExpired"
  ELSE _handle_ssh_test_result(probe)

\* every stored entry has an ssh_key, so _validate_profile_has_ssh_key passes
test_github_connection(profiles, name, probe) ==
  IF name \notin DOMAIN profiles THEN "not_found"
  ELSE \* add_github_to_known_hosts swallows its own failures
       LET r == _perform_ssh_test(probe)
       IN  IF r = "TimeoutExpired" THEN "timeout"
           ELSE IF r = "OSError" THEN "error"
           ELSE r

\* settings choice 1: test_connection with one profile name typed
TestConnection(typed, readable, reread, probe) ==
  /\ pc = "menu"
  /\ ops < MaxOps
  /\ \E n \in {Bad(readable) + Bad(reread) + Bad(probe.started)} :
       /\ faults + n <= MaxFaults
       /\ faults' = faults + n
  /\ \E name \in {Strip(typed)}, profiles \in {load_profiles(store, readable)} :
       \E outcome \in {IF DOMAIN profiles = {} THEN "no_profiles"
                       ELSE IF name \notin DOMAIN profiles THEN "not_found"
                       ELSE test_github_connection(load_profiles(store, reread), name, probe)} :
         last' = [op |-> "test", name |-> name, email |-> "", outcome |-> outcome,
                  effects |-> <<>>, repeat |-> FALSE, url |-> None, new_url |-> None,
                  before |-> Found, probe |-> probe]
  /\ ops' = ops + 1
  /\ UNCHANGED <<store, keyFiles, ssh, git, originUrl, pc, username>>

NextTest ==
  \E typed \in UsernameInputs, readable \in Reads :
    \E stored \in {pc = "menu" /\ Strip(typed) \in DOMAIN load_profiles(store, readable)} :
    \E reread \in Only(stored, Reads, TRUE) :
    \E probe \in Only(stored /\ Strip(typed) \in DOMAIN load_profiles(store, reread),
                      ProbeAnswers, NoProbe) :
      TestConnection(typed, readable, reread, probe)

\* both profiles stored, in a repository with an HTTPS origin
InitTest == InitUrl /\ originUrl = "https://github.com/u/r.git"

SpecTest == InitTest /\ [][NextTest]_vars

\* the probe of a stored profile was attempted
Probed == last.op = "test" /\ last.outcome \notin {"no_profiles", "not_found"}

\* the probe ended within the timeout
ProbeCompleted == Probed /\ last.probe.started /\ last.probe.seconds <= ProbeTimeout

(***************************************************************************)
(* C12, as claimed: the test of a stored profile reports success exactly   *)
(* when the captured stderr contains the text "successfully authenticated",*)
(* whatever the exit code; any other completed probe is reported as an     *)
(* authentication failure; a probe of more than 15 seconds is reported as  *)
(* a timeout, which is not the authentication failure.                     *)
(***************************************************************************)
C12_ClassifiedByPhrase ==
  /\ ProbeCompleted =>
       /\ last.outcome = "success"
            <=> Contains(last.probe.stderr, "successfully authenticated")
       /\ last.outcome \in {"success", "auth_failure"}
  /\ (Probed /\ last.probe.started /\ last.probe.seconds > ProbeTimeout) =>
       last.outcome = "timeout"

(***************************************************************************)
(* C12, amended: as above, with the text found in any letter case.         *)
(***************************************************************************)
C12_ClassifiedByPhraseInAnyCase ==
  /\ ProbeCompleted =>
       /\ last.outcome = "success"
            <=> Contains(ToLower(last.probe.stderr), "successfully authenticated")
       /\ last.outcome \in {"success", "auth_failure"}
  /\ (Probed /\ last.probe.started /\ last.probe.seconds > ProbeTimeout) =>
       last.outcome = "timeout"

\* a probe that ended with a nonzero exit code and the text on stderr
C12_Witness ==
  /\ ProbeCompleted
  /\ last.probe.returncode # 0
  /\ Contains(last.probe.stderr, "successfully authenticated")
  /\ last.outcome = "success"

(***************************************************************************)
(* validate_username on its own: one call with any short text over letters,*)
(* a digit, the hyphen, the underscore and the newline, or with a text of  *)
(* 39 or 40 characters.                                                    *)
(***************************************************************************)
MaxNameLen == 3

NameAlphabet == {"a", "Z", "9", "-", "_", "\n"}

RECURSIVE StringsOver(_, _)
StringsOver(alphabet, n) ==
  IF n = 0 THEN {""}
  ELSE LET shorter == StringsOver(alphabet, n - 1)
       IN  shorter \cup {s \o c : s \in shorter, c \in alphabet}

RECURSIVE Repeat(_, _)
Repeat(c, n) == IF n = 0 THEN "" ELSE c \o Repeat(c, n - 1)

NameArguments ==
  StringsOver(NameAlphabet, MaxNameLen)
    \cup {"abc", "ab--c", "-abc", "abc\n"}
    \cup {Repeat("a", MaxUsernameLen), Repeat("a", MaxUsernameLen + 1),
          "a" \o Repeat("-", MaxUsernameLen - 2) \o "a",
          Repeat("a", MaxUsernameLen - 1) \o "-",
          Repeat("a", MaxUsernameLen - 1) \o "\n",
          Repeat("a", MaxUsernameLen) \o "\n"}

InitValidate ==
  /\ store = AbsentStore
  /\ keyFiles = {}
  /\ ssh = AbsentConfig
  /\ git = [name |-> Unset, email |-> Unset]
  /\ originUrl = NoOrigin
  /\ pc = "call"
  /\ username \in NameArguments
  /\ ops = 0
  /\ faults = 0
  /\ last = Last("start", "", "", "", <<>>, FALSE, None, None)

\* one call of validate_username with the argument
ValidateUsername ==
  /\ pc = "call"
  /\ pc' = "returned"
  /\ last' = Last("validate_username", username, "",
                  IF validate_username(username) THEN "valid" ELSE "invalid",
                  <<>>, FALSE, None, None)
  /\ UNCHANGED <<store, keyFiles, ssh, git, originUrl, username, ops, faults>>

NextValidate == ValidateUsername

SpecValidate == InitValidate /\ [][NextValidate]_vars

\* the names the specification describes: 1 to 39 letters, digits and
\* hyphens, with no hyphen first or last
IsGitHubName(s) ==
  /\ Len(s) >= 1
  /\ Len(s) <= 39
  /\ AllIn(s, UsernameChars)
  /\ Char(s, 1) # "-"
  /\ Char(s, Len(s)) # "-"

(***************************************************************************)
(* C13: validate_username accepts a text exactly when it has 1 to 39       *)
(* characters, all of them ASCII letters, digits or hyphens, and neither   *)
(* its first nor its last character is a hyphen; so a text with any other  *)
(* character, such as a newline at its end, is not accepted.               *)
(***************************************************************************)
C13_ValidIffGitHubName ==
  last.op = "validate_username" =>
    (last.outcome = "valid" <=> IsGitHubName(last.name))

\* an operation attempted x and later y
Precedes(seq, x, y) == \E i, j \in DOMAIN seq : i < j /\ seq[i] = x /\ seq[j] = y

\* the last operation ran _create_profile: the email typed was accepted
CreationRan == last.op = "enter_email" /\ last.outcome # "invalid"

\* generate_ssh_key returned a key path: the key existed, or ssh-keygen and
\* the setting of the permissions succeeded
KeyPathReturned ==
  \/ Has(last.effects, "key_exists")
  \/ Has(last.effects, "keygen") /\ ~Has(last.effects, "chmod_failed")

WroteStore == Has(last.effects, "save") \/ Has(last.effects, "save_failed")

SetGit ==
  \/ Has(last.effects, "set_name") \/ Has(last.effects, "set_name_failed")
  \/ Has(last.effects, "set_email") \/ Has(last.effects, "set_email_failed")

(***************************************************************************)
(* C14: in a run of profile creation the store is written only after key   *)
(* generation has returned a key path, and the Git identity is set only    *)
(* after the store has been saved with the entry; a failed save leaves the *)
(* global Git config as it was.                                            *)
(***************************************************************************)
C14_CreationEffectsOrdered ==
  CreationRan =>
    /\ (WroteStore \/ store # last.before.store) =>
         /\ KeyPathReturned
         /\ KeyFile(last.name) \in keyFiles
         /\ \A e \in {"save", "save_failed"} :
              Has(last.effects, e) =>
                (Precedes(last.effects, "key_exists", e) \/ Precedes(last.effects, "keygen", e))
    /\ (SetGit \/ git # last.before.git) =>
         /\ store.kind = "json"
         /\ last.name \in DOMAIN store.data
         /\ store.data[last.name] = NewEntry(last.name, last.email, KeyFile(last.name))
         /\ \A e \in {"set_name", "set_name_failed"} :
              Has(last.effects, e) => Precedes(last.effects, "save", e)
    /\ (last.outcome = "save_failed" \/ Has(last.effects, "save_failed")) =>
         /\ ~SetGit
         /\ git = last.before.git

\* a creation whose save failed while another profile was active
C14_Witness ==
  /\ CreationRan
  /\ last.outcome = "save_failed"
  /\ KeyPathReturned
  /\ last.before.git.name \notin {Unset, last.name}
  /\ git = last.before.git

\* the last operation was a confirmed deletion of a stored profile
DeletionRan == last.op = "remove" /\ last.outcome \in {"removed", "save_failed"}

\* the attempts of the steps of a deletion, as they succeed or fail
GitStep == {"unset_name", "unset_name_failed", "skip_git"}
KeyStep == {"unlink_key", "unlink_key_failed", "key_missing"}
PubStep == {"unlink_pub", "unlink_pub_failed", "pub_missing"}
StanzaStep == {"rewrite_ssh_config", "rewrite_ssh_config_failed", "no_ssh_config"}
StoreStep == {"save", "save_failed"}

\* an earlier step of the deletion failed
EarlierStepFailed ==
  \E e \in {"unset_name_failed", "unset_email_failed", "unlink_key_failed", "key_missing",
            "unlink_pub_failed", "pub_missing", "rewrite_ssh_config_failed"} :
    Has(last.effects, e)

(***************************************************************************)
(* C15: a confirmed deletion attempts, in this order, the clearing of the  *)
(* Git identity (when the profile is active), the deletion of the two key  *)
(* files, the removal of the stanza and the removal of the store entry;    *)
(* every step is attempted whatever became of the steps before it, and a   *)
(* step that succeeds has its effect.                                      *)
(***************************************************************************)
C15_DeletionStepsInOrder ==
  DeletionRan =>
    /\ \E g, k, p, z, t \in DOMAIN last.effects :
         /\ g < k /\ k < p /\ p < z /\ z < t
         /\ last.effects[g] \in GitStep
         /\ last.effects[k] \in KeyStep
         /\ last.effects[p] \in PubStep
         /\ last.effects[z] \in StanzaStep
         /\ last.effects[t] \in StoreStep
    /\ Has(last.effects, "skip_git") <=> ~IsActive(last.before.git, last.before.store.data[last.name])
    /\ Has(last.effects, "unlink_key") => KeyFile(last.name) \notin keyFiles
    /\ Has(last.effects, "unlink_pub") => PubFile(KeyFile(last.name)) \notin keyFiles
    /\ Has(last.effects, "rewrite_ssh_config") => StanzaCount(ssh.lines, last.name) = 0
    /\ Has(last.effects, "save") => last.name \notin DOMAIN store.data

\* a deletion whose Git clearing failed and whose store entry was removed
C15_Witness ==
  /\ DeletionRan
  /\ Has(last.effects, "unset_name_failed")
  /\ Has(last.effects, "unlink_key")
  /\ Has(last.effects, "rewrite_ssh_config")
  /\ Has(last.effects, "save")
  /\ last.name \notin DOMAIN store.data

\* the deletion attempted to unset a value of the global Git config
UnsetAttempted ==
  \E e \in {"unset_name", "unset_name_failed", "unset_email", "unset_email_failed"} :
    Has(last.effects, e)

\* the entry of the profile the last operation worked on, as it was stored
StoredBefore == last.before.store.data[last.name]

(***************************************************************************)
(* C16: a deletion of N unsets the global user.name and user.email only    *)
(* when both are set and equal the name and the email stored for N; with   *)
(* another identity, or none, the deletion leaves the global Git config as *)
(* it was.                                                                 *)
(***************************************************************************)
C16_UnsetOnlyWhenActive ==
  DeletionRan =>
    /\ (UnsetAttempted \/ git # last.before.git) =>
         /\ last.before.git.name = StoredBefore.name
         /\ last.before.git.email = StoredBefore.email
    /\ (last.before.git.name # StoredBefore.name
          \/ last.before.git.email # StoredBefore.email) =>
         /\ git = last.before.git
         /\ ~UnsetAttempted

\* a deletion of a profile whose name but not whose email is the active one
C16_Witness ==
  /\ DeletionRan
  /\ last.before.git.name = StoredBefore.name
  /\ last.before.git.email \notin {Unset, StoredBefore.email}
  /\ git = last.before.git
  /\ last.name \notin DOMAIN store.data

\* _create_profile ran for a name whose key file was there already
KeyExisted == CreationRan /\ KeyFile(last.name) \in last.before.keyFiles

\* ssh-keygen was run
KeygenInvoked == Has(last.effects, "keygen") \/ Has(last.effects, "keygen_failed")

KeygenFailed ==
  CreationRan /\ (Has(last.effects, "keygen_failed") \/ Has(last.effects, "chmod_failed"))

(***************************************************************************)
(* C18: when the key generation fails during a creation, generate_ssh_key  *)
(* returns nothing and the creation stops: no stanza is appended, no store *)
(* entry is written, and the store, the SSH config and the global Git      *)
(* config are as they were.                                                *)
(***************************************************************************)
C18_KeygenFailureAborts ==
  KeygenFailed =>
    /\ last.outcome = "keygen_failed"
    /\ ~Has(last.effects, "append") /\ ~Has(last.effects, "append_failed")
    /\ ~WroteStore
    /\ ~SetGit
    /\ store = last.before.store
    /\ ssh = last.before.ssh
    /\ git = last.before.git

\* ssh-keygen failed for a second profile while the first one was active
C18_Witness ==
  /\ KeygenFailed
  /\ Has(last.effects, "keygen_failed")
  /\ last.outcome = "keygen_failed"
  /\ last.before.store.kind = "json"
  /\ last.name \notin DOMAIN store.data
  /\ git.name \notin {Unset, last.name}
  /\ ssh.exists

(***************************************************************************)
(* load_profiles on its own: one call on any store file, which may be      *)
(* absent, a JSON object of up to three profiles, text that is no JSON or  *)
(* bytes that are no UTF-8 text, and which the call may fail to open.      *)
(***************************************************************************)
\* CONFIG_FILE holds bytes that do not decode as UTF-8
UndecodableStore == [kind |-> "undecodable", data |-> NoProfiles]

StoredNames == ProfileNames \cup {"bo"}

StoreFiles ==
  {AbsentStore, CorruptStore, UndecodableStore}
    \cup UNION {{JsonStore([n \in S |-> NewEntry(n, f[n], KeyFile(n))]) :
                   f \in [S -> EmailInputs]} : S \in SUBSET StoredNames}

\* load_profiles with what it raises and prints: open raises IOError, text
\* that is no JSON raises json.JSONDecodeError, both caught; bytes that are
\* no UTF-8 raise UnicodeDecodeError, which the except clause does not name
load_profiles_call(file, readable) ==
  IF file.kind = "absent"
  THEN [raised |-> FALSE, reported |-> FALSE, profiles |-> NoProfiles]
  ELSE IF ~readable
  THEN [raised |-> FALSE, reported |-> TRUE, profiles |-> NoProfiles]
  ELSE IF file.kind = "undecodable"
  THEN [raised |-> TRUE, reported |-> FALSE, profiles |-> NoProfiles]
  ELSE [raised |-> FALSE, reported |-> file.kind # "json",
        profiles |-> load_profiles(file, readable)]

InitLoad ==
  /\ store \in StoreFiles
  /\ keyFiles = {}
  /\ ssh = AbsentConfig
  /\ git = [name |-> Unset, email |-> Unset]
  /\ originUrl = NoOrigin
  /\ pc = "call"
  /\ username = ""
  /\ ops = 0
  /\ faults = 0
  /\ last = Last("start", "", "", "", <<>>, FALSE, None, None)

\* one call of load_profiles
LoadProfiles(readable) ==
  /\ pc = "call"
  /\ \E r \in {load_profiles_call(store, readable)} :
       /\ pc' = IF r.raised THEN "raised" ELSE "returned"
       /\ last' = [op |-> "load_profiles", name |-> "", email |-> "",
                   outcome |-> IF r.raised THEN "raised" ELSE "returned",
                   effects |-> IF r.reported THEN <<"reported">> ELSE <<>>,
                   repeat |-> FALSE, url |-> None, new_url |-> None, before |-> Found,
                   readable |-> readable, returned |-> r.profiles]
  /\ UNCHANGED <<store, keyFiles, ssh, git, originUrl, username, ops, faults>>

NextLoad == \E readable \in Only(store.kind # "absent", BOOLEAN, TRUE) : LoadProfiles(readable)

SpecLoad == InitLoad /\ [][NextLoad]_vars

\* load_profiles was called on a file that is there but could not be read or
\* holds no JSON
LoadFailed ==
  /\ last.op = "load_profiles"
  /\ (~last.readable \/ last.before.store.kind \in {"corrupt", "undecodable"})

(***************************************************************************)
(* C19: load_profiles returns the empty mapping and raises nothing when    *)
(* the store file is absent and when it is there but cannot be read or     *)
(* parsed as JSON; in the second case it reports the failure and the file  *)
(* is as it was.                                                           *)
(***************************************************************************)
C19_LoadNeverRaises ==
  /\ (last.op = "load_profiles" /\ last.before.store.kind = "absent") =>
       /\ last.outcome = "returned"
       /\ last.returned = NoProfiles
  /\ LoadFailed =>
       /\ last.outcome = "returned"
       /\ last.returned = NoProfiles
       /\ Has(last.effects, "reported")
       /\ store = last.before.store

(***************************************************************************)
(* Keyboard interruption.  Ctrl-C raises KeyboardInterrupt at the prompt   *)
(* or the external command the tool is waiting in; the handler that was    *)
(* running stops there, with the effects it had performed so far.          *)
(***************************************************************************)
CatchesInterruptInRunOnly(action) == "run"

\* the innermost try block with `except KeyboardInterrupt` around a menu
\* action: add_profile has its own, the other actions run under that of run
CatchesInterrupt(action) == IF action = "add" THEN "add_profile" ELSE "run"

\* add_profile prints "Profile creation cancelled." and returns to
\* handle_choice; run prints "Goodbye!" and calls sys.exit(0)
AfterInterrupt(action) ==
  IF CatchesInterrupt(action) = "add_profile"
  THEN [pc |-> "menu", outcome |-> "cancelled"]
  ELSE [pc |-> "exited", outcome |-> "exit_0"]

\* the files and the Git identity when a handler whose complete run is r is
\* interrupted after its first n effects on the profile `name`: after none
\* of them at a prompt, after all of them at the last prompt of the handler
Interrupted(r, n, name) ==
  LET done(e) == \E i \in 1..n : r.effects[i] = e
  IN  [store |-> IF done("save") THEN r.store ELSE store,
       keyFiles |->
         ((keyFiles \cup (IF done("keygen") THEN {KeyFile(name), PubFile(KeyFile(name))}
                          ELSE {}))
            \ (IF done("unlink_key") THEN {KeyFile(name)} ELSE {}))
            \ (IF done("unlink_pub") THEN {PubFile(KeyFile(name))} ELSE {}),
       ssh |-> IF done("append") \/ done("rewrite_ssh_config") THEN r.ssh ELSE ssh,
       git |-> [name |-> IF done("set_name") \/ done("unset_name")
                         THEN r.git.name ELSE git.name,
                email |-> IF done("set_email") \/ done("unset_email")
                          THEN r.git.email ELSE git.email],
       effects |-> SubSeq(r.effects, 1, n)]

\* Ctrl-C at the menu prompt or at a prompt of add_profile
InterruptPrompt ==
  /\ pc \in {"menu", "add_username", "add_email"}
  /\ \E a \in {AfterInterrupt(IF pc = "menu" THEN "menu" ELSE "add")} :
       /\ pc' = a.pc
       /\ last' = Last(IF pc = "menu" THEN "interrupt_menu" ELSE "interrupt_add",
                       username, "", a.outcome, <<>>, FALSE, None, None)
  /\ username' = ""
  /\ UNCHANGED <<store, keyFiles, ssh, git, originUrl, ops, faults>>

\* Ctrl-C in add_profile after the email was accepted: during ssh-keygen, a
\* git run or the prompts of _handle_ssh_setup
InterruptCreation(typed) ==
  /\ pc = "add_email"
  /\ \E email \in {Strip(typed)} :
     \E r \in {_create_profile(username, email, "ok", TRUE, TRUE, "ok", "ok")} :
     \E m \in 1..Len(r.effects) :
     \E p \in {Interrupted(r, m, username)}, a \in {AfterInterrupt("add")} :
       /\ _get_valid_email(email) = "accepted"
       /\ store' = p.store
       /\ keyFiles' = p.keyFiles
       /\ ssh' = p.ssh
       /\ git' = p.git
       /\ pc' = a.pc
       /\ last' = Last("interrupt_add", username, email, a.outcome, p.effects,
                       FALSE, None, None)
  /\ username' = ""
  /\ UNCHANGED <<originUrl, ops, faults>>

\* Ctrl-C in remove_profile for a stored profile, after the confirmations
InterruptRemoval(typed) ==
  /\ pc = "menu"
  /\ ops < MaxOps
  /\ \E name \in {Strip(typed)}, profiles \in {load_profiles(store, TRUE)} :
       /\ name \in DOMAIN profiles
       /\ \E r \in {_perform_complete_profile_removal(name, profiles[name], profiles,
                                                      "ok", TRUE, TRUE, TRUE, "ok")} :
          \E m \in 0..Len(r.effects) :
          \E p \in {Interrupted(r, m, name)}, a \in {AfterInterrupt("remove")} :
            /\ store' = p.store
            /\ keyFiles' = p.keyFiles
            /\ ssh' = p.ssh
            /\ git' = p.git
            /\ pc' = a.pc
            /\ last' = Last("interrupt_remove", name, "", a.outcome, p.effects,
                            FALSE, None, None)
  /\ ops' = ops + 1
  /\ UNCHANGED <<originUrl, username, faults>>

\* Ctrl-C in switch_profile for a stored profile, before it turns to the
\* origin URL
InterruptSwitch(typed) ==
  /\ pc = "menu"
  /\ ops < MaxOps
  /\ \E name \in {Strip(typed)}, profiles \in {load_profiles(store, TRUE)} :
       /\ name \in DOMAIN profiles
       /\ \E r \in {[store |-> store, keyFiles |-> keyFiles, ssh |-> ssh,
                     git |-> set_git_config(git, profiles[name].name,
                                            profiles[name].email, "ok"),
                     effects |-> SetGitEffects("ok")]} :
          \E m \in 0..Len(r.effects) :
          \E p \in {Interrupted(r, m, name)}, a \in {AfterInterrupt("switch")} :
            /\ git' = p.git
            /\ pc' = a.pc
            /\ last' = Last("interrupt_switch", name, profiles[name].email, a.outcome,
                            p.effects, FALSE, None, None)
  /\ ops' = ops + 1
  /\ UNCHANGED <<store, keyFiles, ssh, originUrl, username, faults>>

\* Ctrl-C in show_settings: at its prompt, or while the connection test or
\* the URL update waits for ssh or git
InterruptSettings ==
  /\ pc = "menu"
  /\ ops < MaxOps
  /\ \E a \in {AfterInterrupt("settings")} :
       /\ pc' = a.pc
       /\ last' = Last("interrupt_settings", "", "", a.outcome, <<>>, FALSE, None, None)
  /\ ops' = ops + 1
  /\ UNCHANGED <<store, keyFiles, ssh, git, originUrl, username, faults>>

\* a first start as in Init, with an environment that never fails: the
\* interruption is the only event from outside
InitInterrupt ==
  /\ store = AbsentStore
  /\ keyFiles = {}
  /\ ssh = AbsentConfig
  /\ git = [name |-> Unset, email |-> Unset]
  /\ originUrl = NoOrigin
  /\ pc = "menu"
  /\ username = ""
  /\ ops = 0
  /\ faults = MaxFaults
  /\ last = Last("start", "", "", "", <<>>, FALSE, None, None)

NextInterrupt ==
  \/ Next
  \/ InterruptPrompt
  \/ \E typed \in EmailInputs : InterruptCreation(typed)
  \/ \E typed \in UsernameInputs : InterruptRemoval(typed)
  \/ \E typed \in UsernameInputs : InterruptSwitch(typed)
  \/ InterruptSettings

SpecInterrupt == InitInterrupt /\ [][NextInterrupt]_vars

\* the last step was a keyboard interruption
InterruptHappened ==
  last.op \in {"interrupt_menu", "interrupt_add", "interrupt_remove", "interrupt_switch",
               "interrupt_settings"}

\* the effects performed before the interruption are still there, and
\* nothing else has changed
EffectsKept ==
  /\ Has(last.effects, "keygen") =>
       {KeyFile(last.name), PubFile(KeyFile(last.name))} \subseteq keyFiles
  /\ Has(last.effects, "append") =>
       ssh = ConfigFile(last.before.ssh.lines \o Stanza(last.name, KeyFile(last.name)))
  /\ (last.op = "interrupt_add" /\ Has(last.effects, "save")) =>
       (store.kind = "json" /\ last.name \in DOMAIN store.data)
  /\ (last.op = "interrupt_remove" /\ Has(last.effects, "save")) =>
       (store.kind = "json" /\ last.name \notin DOMAIN store.data)
  /\ Has(last.effects, "set_name") => git.name = last.name
  /\ Has(last.effects, "set_email") => git.email = last.email
  /\ Has(last.effects, "unset_name") => git.name = Unset
  /\ Has(last.effects, "unset_email") => git.email = Unset
  /\ Has(last.effects, "unlink_key") => KeyFile(last.name) \notin keyFiles
  /\ Has(last.effects, "unlink_pub") => PubFile(KeyFile(last.name)) \notin keyFiles
  /\ Has(last.effects, "rewrite_ssh_config") =>
       ssh = ConfigFile(_update_ssh_config_file(last.before.ssh.lines, last.name))
  /\ ~Has(last.effects, "save") => store = last.before.store
  /\ (~Has(last.effects, "append") /\ ~Has(last.effects, "rewrite_ssh_config")) =>
       ssh = last.before.ssh
  /\ (\A e \in {"keygen", "unlink_key", "unlink_pub"} : ~Has(last.effects, e)) =>
       keyFiles = last.before.keyFiles
  /\ (\A e \in {"set_name", "set_email", "unset_name", "unset_email"} :
        ~Has(last.effects, e)) => git = last.before.git

(***************************************************************************)
(* C20, as claimed: a keyboard interruption during any menu action is      *)
(* caught by the loop of run alone, which ends the process with exit       *)
(* status 0; no handler below it catches the interruption and goes back to *)
(* the menu, and the effects performed before it stay.                     *)
(***************************************************************************)
C20_InterruptEndsProcess ==
  InterruptHappened =>
    /\ pc = "exited"
    /\ last.outcome = "exit_0"
    /\ EffectsKept

(***************************************************************************)
(* C20, amended: a keyboard interruption at the menu or during switch,     *)
(* remove or settings is caught by the loop of run alone, which ends the   *)
(* process with exit status 0; one during add is caught by add_profile,    *)
(* which reports the cancellation and goes back to the menu; in both cases *)
(* the effects performed before the interruption stay.                     *)
(***************************************************************************)
C20_InterruptEndsProcessExceptInAdd ==
  InterruptHappened =>
    /\ last.op # "interrupt_add" => (pc = "exited" /\ last.outcome = "exit_0")
    /\ last.op = "interrupt_add" => (pc = "menu" /\ last.outcome = "cancelled")
    /\ EffectsKept

\* a creation interrupted after the key was generated and the stanza
\* appended, before the store was written
C20_Witness ==
  /\ last.op = "interrupt_add"
  /\ last.effects = <<"keygen", "append">>
  /\ pc = "menu"
  /\ KeyFile(last.name) \in keyFiles
  /\ StanzaCount(ssh.lines, last.name) = 1
  /\ store = last.before.store

\* a step of switch_profile
SwitchStep == last'.op = "switch" /\ ops' = ops + 1

\* the name typed at the prompt of the switch is a key of the store file
SwitchNameStored == store.kind = "json" /\ last'.name \in DOMAIN store.data

(***************************************************************************)
(* C21: a switch to a stored name N whose two Git writes succeed leaves    *)
(* the global user.name and user.email equal to the name and email stored  *)
(* for N, and N is then the profile that matches the active identity; a    *)
(* switch to a name that is not stored reports that nothing was found (the *)
(* profile, or any profile when the loaded mapping is empty) and leaves    *)
(* the Git identity and the origin URL as they were; a switch whose        *)
(* user.name write succeeds and whose user.email write fails is reported   *)
(* as failed.                                                              *)
(***************************************************************************)
C21_SwitchSetsIdentity ==
  [][SwitchStep =>
       /\ (Has(last'.effects, "set_name") /\ Has(last'.effects, "set_email")) =>
            /\ SwitchNameStored
            /\ last'.outcome = "switched"
            /\ git' = [name |-> store.data[last'.name].name,
                       email |-> store.data[last'.name].email]
            /\ MatchingProfiles(store'.data, get_current_git_config(git')) = {last'.name}
       /\ ~SwitchNameStored =>
            /\ last'.outcome \in {"not_found", "no_profiles"}
            /\ last'.effects = <<>>
            /\ git' = git
            /\ originUrl' = originUrl
       /\ (Has(last'.effects, "set_name") /\ Has(last'.effects, "set_email_failed")) =>
            /\ last'.outcome = "git_failed"
            /\ originUrl' = originUrl
    ]_vars

\* a switch from the active profile to the other one, in a repository
C21_Witness ==
  /\ last.op = "switch"
  /\ last.outcome = "switched"
  /\ last.before.git.name \notin {Unset, last.name}
  /\ git = [name |-> last.name, email |-> last.email]
  /\ MatchingProfiles(store.data, get_current_git_config(git)) = {last.name}
  /\ originUrl # NoOrigin

\* the Git identities a stored profile or a typed line can give
Identities ==
  {[found |-> TRUE, name |-> n, email |-> e] :
     n \in ProfileNames, e \in {Strip(typed) : typed \in EmailInputs}}
    \cup {get_current_git_config(git)}

(***************************************************************************)
(* C22: from an empty store on, whatever is created, switched and deleted  *)
(* and whatever fails, every entry of the store file under a key K has the *)
(* name K, an email that validate_email accepts and the key path           *)
(* <ssh-dir>/id_rsa_<K>; so no Git identity matches two stored profiles.   *)
(***************************************************************************)
C22_StoredEntriesWellFormed ==
  /\ \A K \in DOMAIN store.data :
       /\ store.data[K].name = K
       /\ validate_email(store.data[K].email)
       /\ store.data[K].ssh_key = SSH_DIR \o "/id_rsa_" \o K
  /\ \A current \in Identities :
       Cardinality(MatchingProfiles(store.data, current)) <= 1

\* two profiles stored, one of them matching the active identity
C22_Witness ==
  /\ store.kind = "json"
  /\ Cardinality(DOMAIN store.data) = 2
  /\ get_current_git_config(git).found
  /\ Cardinality(MatchingProfiles(store.data, get_current_git_config(git))) = 1
  /\ last.op \in {"switch", "remove"}

\* no tool and no file operation has failed so far
NothingFailed == faults = 0

\* the private key file of N exists and the SSH config has a stanza marked
\* `# Git profile: N`
HasKeyAndStanza(N) == KeyFile(N) \in keyFiles /\ MarkerCount(ssh.lines, N) >= 1

(***************************************************************************)
(* C23: from an empty store, no key files and an SSH config without        *)
(* stanzas, after any completed creations and deletions in which nothing   *)
(* failed, a profile N is in the store exactly when its private key file   *)
(* exists and the SSH config has a stanza marked `# Git profile: N`.       *)
(***************************************************************************)
C23_StoreKeysConfigInSync ==
  NothingFailed =>
    \A N \in ProfileNames :
      (store.kind = "json" /\ N \in DOMAIN store.data) <=> HasKeyAndStanza(N)

\* the last operation was a creation or a deletion that reported success
CreatedOrRemoved ==
  \/ Created
  \/ last.op = "remove" /\ last.outcome = "removed"

(***************************************************************************)
(* C24: a successful creation or deletion of N changes the entry of N      *)
(* alone: every other entry the store file had before the operation is in  *)
(* the file afterwards, unchanged, even if the file could not be read or   *)
(* parsed when the operation loaded it.                                    *)
(***************************************************************************)
C24_OtherEntriesKept ==
  CreatedOrRemoved =>
    \A K \in DOMAIN last.before.store.data \ {last.name} :
      /\ store.kind = "json"
      /\ K \in DOMAIN store.data
      /\ store.data[K] = last.before.store.data[K]

(***************************************************************************)
(* The prompts of a removal, answer by answer.                             *)
(***************************************************************************)
\* lines typed at the prompt `Type 'DELETE' to confirm removal`
FirstAnswers == {"DELETE", " DELETE ", "delete", "DELETE!", ""}

\* lines typed at the prompt `Are you absolutely sure? (yes/no)`
SecondAnswers == {"yes", " YES ", "Yes", "no", "y", ""}

\* menu choice 3: remove_profile, with the lines typed at its prompts kept
AnswerRemoval(typed, confirm1, confirm2, readable, gitUnset, unlinkKey, unlinkPub, rewriteOk, save) ==
  /\ pc = "menu"
  /\ ops < MaxOps
  /\ \E n \in {Bad(readable) + BadOutcome(gitUnset) + Bad(unlinkKey) + Bad(unlinkPub)
                 + Bad(rewriteOk) + BadOutcome(save)} :
       /\ faults + n <= MaxFaults
       /\ faults' = faults + n
  /\ \E name \in {Strip(typed)} :
     \E r \in {remove_profile(name, confirm1, confirm2, readable,
                              gitUnset, unlinkKey, unlinkPub, rewriteOk, save)} :
       /\ store' = r.store
       /\ keyFiles' = r.keyFiles
       /\ ssh' = r.ssh
       /\ git' = r.git
       /\ last' = [op |-> "remove", name |-> name, email |-> "",
                   outcome |-> r.outcome, effects |-> r.effects,
                   repeat |-> FALSE, url |-> None, new_url |-> None,
                   before |-> Found,
                   confirm1 |-> confirm1, confirm2 |-> confirm2]
  /\ ops' = ops + 1
  /\ UNCHANGED <<originUrl, pc, username>>

\* two profiles stored, outside a repository
InitRemove == InitUrl /\ originUrl = NoOrigin

NextRemove ==
  \E typed \in UsernameInputs, readable \in Reads :
    \E found \in {pc = "menu" /\ Strip(typed) \in DOMAIN load_profiles(store, readable)} :
    \E confirm1 \in Only(found, FirstAnswers, "DELETE") :
    \E confirm2 \in Only(found /\ Strip(confirm1) = "DELETE", SecondAnswers, "yes") :
    \E runs \in {found /\ _confirm_permanent_removal(confirm1, confirm2)} :
    \E profile \in {IF runs THEN store.data[Strip(typed)] ELSE NewEntry("", "", "")} :
    \E gitUnset \in Only(runs /\ IsActive(git, profile), GitOutcomes, "ok") :
    \E unlinkKey \in Only(runs /\ profile.ssh_key \in keyFiles, BOOLEAN, TRUE) :
    \E unlinkPub \in Only(runs /\ PubFile(profile.ssh_key) \in keyFiles, BOOLEAN, TRUE) :
    \E rewriteOk \in Only(runs /\ ssh.exists, BOOLEAN, TRUE) :
    \E save \in Only(runs, WriteOutcomes, "ok") :
      AnswerRemoval(typed, confirm1, confirm2, readable,
                    gitUnset, unlinkKey, unlinkPub, rewriteOk, save)

SpecRemove == InitRemove /\ [][NextRemove]_vars

\* remove_profile has returned
RemovalReturned == last.op = "remove"

\* the name typed is a key of the store file and both confirmations were
\* given; each typed line counts without the white space around it, as the
\* name does
RemovalConfirmed ==
  /\ last.before.store.kind = "json"
  /\ last.name \in DOMAIN last.before.store.data
  /\ Strip(last.confirm1) = "DELETE"
  /\ ToLower(Strip(last.confirm2)) = "yes"

\* the Git config, the key files, the SSH config and the store are as
\* remove_profile found them, and it attempted nothing
NothingMutated == Found = last.before /\ last.effects = <<>>

(***************************************************************************)
(* C25: remove_profile mutates nothing (global Git config, key files, SSH  *)
(* config, store) unless the name entered is a key of the store, the       *)
(* first confirmation is exactly DELETE and the second confirmation is     *)
(* yes in any letter case; on any other answer it ends with all four as    *)
(* they were.                                                              *)
(***************************************************************************)
C25_RemovalNeedsBothConfirmations ==
  RemovalReturned => (RemovalConfirmed \/ NothingMutated)

\* a stored name and DELETE were typed, the second answer was not yes, and
\* nothing was touched
C25_Witness ==
  /\ RemovalReturned
  /\ last.name \in DOMAIN last.before.store.data
  /\ Strip(last.confirm1) = "DELETE"
  /\ ToLower(Strip(last.confirm2)) # "yes"
  /\ last.outcome = "cancelled"
  /\ NothingMutated

(***************************************************************************)
(* The SSH config alone: stanzas appended to and removed from a config     *)
(* file that other tools and the user have written.                        *)
(***************************************************************************)
\* what SSH_DIR / 'config' holds before the tool touches it
ConfigInputs ==
  {AbsentConfig,
   ConfigFile(<<>>),
   ConfigFile(<<"\n">>),
   ConfigFile(<<"Host x\n">>),
   ConfigFile(<<"Host x">>),
   ConfigFile(<<"Host x\n", "\n", "Host y\n">>),
   ConfigFile(Stanza("al", KeyFile("al"))),
   ConfigFile(<<"# Git profile: al\n", "Host github.com-al">>)}

\* the profile names that update_ssh_config and remove_from_ssh_config are
\* called with
ConfigNames == {"al", "al2"}

\* no line of the lines has `Git profile: <name>` in it
NoMarkerOf(lines, name) == \A i \in 1..Len(lines) : ~LineMatches(lines[i], name)

InitConfig ==
  /\ store = AbsentStore
  /\ keyFiles = {}
  /\ ssh \in ConfigInputs
  /\ git = [name |-> Unset, email |-> Unset]
  /\ originUrl = NoOrigin
  /\ pc = "menu"
  /\ username \in ConfigNames
  /\ ops = 0
  /\ faults = 0
  /\ last = [op |-> "start", name |-> username, outcome |-> "", prior |-> ssh,
             round_trip |-> FALSE, before |-> Found]

\* update_ssh_config(username, key_file), as _create_ssh_key calls it
AppendHostAlias(ok) ==
  /\ ops < MaxOps
  /\ faults + Bad(ok) <= MaxFaults
  /\ faults' = faults + Bad(ok)
  /\ ssh' = update_ssh_config(ssh, username, KeyFile(username), ok)
  /\ last' = [op |-> "append", name |-> username,
              outcome |-> IF ok THEN "appended" ELSE "append_failed",
              prior |-> ssh, round_trip |-> FALSE, before |-> Found]
  /\ ops' = ops + 1
  /\ UNCHANGED <<store, keyFiles, git, originUrl, pc, username>>

\* remove_from_ssh_config(username), as the removal of a profile calls it;
\* round_trip: it follows, at once, an append that was done
RemoveHostAlias(ok) ==
  /\ ops < MaxOps
  /\ faults + Bad(ok) <= MaxFaults
  /\ faults' = faults + Bad(ok)
  /\ ssh' = remove_from_ssh_config(ssh, username, ok)
  /\ last' = [op |-> "remove_alias", name |-> username,
              outcome |-> IF ~ssh.exists THEN "no_ssh_config"
                          ELSE IF ok THEN "rewritten" ELSE "rewrite_failed",
              prior |-> IF last.op = "append" THEN last.prior ELSE ssh,
              round_trip |-> last.op = "append" /\ last.outcome = "appended",
              before |-> Found]
  /\ ops' = ops + 1
  /\ UNCHANGED <<store, keyFiles, git, originUrl, pc, username>>

NextConfig ==
  \/ \E ok \in BOOLEAN : AppendHostAlias(ok)
  \/ \E ok \in Only(ssh.exists, BOOLEAN, TRUE) : RemoveHostAlias(ok)

SpecConfig == InitConfig /\ [][NextConfig]_vars

\* a stanza of the profile was appended to a config without a line that has
\* `Git profile: <name>` in it, and then removed
RoundTripDone ==
  /\ last.op = "remove_alias"
  /\ last.outcome = "rewritten"
  /\ last.round_trip
  /\ NoMarkerOf(last.prior.lines, last.name)

(***************************************************************************)
(* C26: append followed by remove is a round trip on the SSH config: for   *)
(* every config content without a line that has `Git profile: N` in it,    *)
(* appending the stanza of N and then removing it leaves the file with     *)
(* exactly the content it had, so that cycles of creation and deletion do  *)
(* not grow the file.                                                      *)
(***************************************************************************)
C26_AppendRemoveRoundTrip == RoundTripDone => ssh.lines = last.prior.lines

====
